---- MODULE Spec2Model ----
(***************************************************************************)
(* A model of notifydict.py: NotifyDict, a dict subclass that calls a      *)
(* callback on every change to it or to its sub-dicts, and its two         *)
(* subclasses ChangedDict and HistoryDict.                                 *)
(*                                                                         *)
(* Representation.                                                         *)
(*  - A Python string is the sequence of its characters, so that split,    *)
(*    join and fnmatch are computed and not assumed.                       *)
(*  - A Python object graph rooted at the top-level map is a tree: a       *)
(*    function from addresses (the sequence of keys leading from the root  *)
(*    to a value) to the node found there.  A node is an int, None, a      *)
(*    plain dict or a NotifyDict with its four slots.  The client of the   *)
(*    model writes ints and fresh dict literals and reaches sub-dicts by   *)
(*    indexing from the top-level map, so no object is shared between two  *)
(*    addresses.                                                           *)
(*  - An operation is an operator from an execution context (the tree, the *)
(*    subclass slots, the callback invocations so far, the exception       *)
(*    raised so far) to the context after it.                              *)
(***************************************************************************)
EXTENDS Integers, Sequences, FiniteSets, TLC

VARIABLES
    cls,        \* the class the top-level object was constructed from
    alive,      \* TRUE when the constructor returned an object
    store,      \* the object tree rooted at the top-level map
    _changed,   \* ChangedDict._changed
    _history,   \* HistoryDict._history
    calls,      \* the callback invocations of the last operation, in order
    err,        \* the exception the last operation raised, or NoError
    ret,        \* what the last operation returned
    lastOp,     \* the last operation and its arguments
    nops        \* the number of operations the client has called

vars == <<cls, alive, store, _changed, _history, calls, err, ret, lastOp, nops>>

----------------------------------------------------------------------------
(* Bounds of the model *)

\* the number of operations the client calls on the object it constructed
MaxOps == 3
\* the deepest dict the client makes: the length of its address
MaxDepth == 2
\* the number of segments of the longest path handed to set and set_stealth
MaxSegs == 2
\* the depth of nested callback calls at which the interpreter gives up: more
\* than the longest chain that ends (a newcallback for each level of
\* nesting, then _match, then a function)
RecursionLimit == MaxDepth + 3

----------------------------------------------------------------------------
(* Python values *)

NoneV == [t |-> "None"]
IntV(n) == [t |-> "int", v |-> n]
PlainDict == [t |-> "dict"]
Absent == [t |-> "absent"]       \* no value: the key is not in the dict

NoError == [type |-> "none"]
Error(type, arg) == [type |-> type, arg |-> arg]

\* the strings of the model
Sep == <<"/">>
Star == <<"*">>
KeyA == <<"A">>
KeyB == <<"B">>
Keys == {KeyA, KeyB}

\* str.join of two strings
Join(sep, a, b) == a \o sep \o b

\* str.split(sep): the pieces of s between the occurrences of sep
RECURSIVE SplitFrom(_, _, _)
SplitFrom(s, sep, cur) ==
    IF s = <<>> THEN <<cur>>
    ELSE IF Len(s) >= Len(sep) /\ SubSeq(s, 1, Len(sep)) = sep
         THEN <<cur>> \o SplitFrom(SubSeq(s, Len(sep) + 1, Len(s)), sep, <<>>)
         ELSE SplitFrom(Tail(s), sep, Append(cur, Head(s)))

Split(s, sep) == SplitFrom(s, sep, <<>>)

\* fnmatch.fnmatch(name, pat) for patterns of literals, * and ?
RECURSIVE _fnmatch(_, _)
_fnmatch(name, pat) ==
    IF pat = <<>> THEN name = <<>>
    ELSE IF Head(pat) = "*"
         THEN \/ _fnmatch(name, Tail(pat))
              \/ (name # <<>> /\ _fnmatch(Tail(name), pat))
    ELSE IF Head(pat) = "?"
         THEN name # <<>> /\ _fnmatch(Tail(name), Tail(pat))
    ELSE name # <<>> /\ Head(name) = Head(pat) /\ _fnmatch(Tail(name), Tail(pat))

----------------------------------------------------------------------------
(* Object trees *)

Front(a) == SubSeq(a, 1, Len(a) - 1)
Last(a) == a[Len(a)]
IsPrefix(a, b) == Len(a) <= Len(b) /\ SubSeq(b, 1, Len(a)) = a

\* the node at address a, Absent when there is none
At(tree, a) == IF a \in DOMAIN tree THEN tree[a] ELSE Absent

\* isinstance(node, dict): NotifyDict is a subclass of dict
IsDict(node) == node.t \in {"dict", "NotifyDict"}

\* the object at address a, as a tree of its own
Subtree(tree, a) ==
    [r \in {SubSeq(b, Len(a) + 1, Len(b)) : b \in {c \in DOMAIN tree : IsPrefix(a, c)}}
        |-> tree[a \o r]]

\* the tree with everything at and below address a removed
Prune(tree, a) == [b \in {c \in DOMAIN tree : ~IsPrefix(a, c)} |-> tree[b]]

\* the tree with the object `val` (a tree) put at address a
Graft(tree, a, val) ==
    LET kept == Prune(tree, a)
    IN  [b \in DOMAIN kept \cup {a \o r : r \in DOMAIN val}
            |-> IF IsPrefix(a, b) THEN val[SubSeq(b, Len(a) + 1, Len(b))] ELSE kept[b]]

\* a value that is one node: an int, None or an empty dict
Leaf(node) == [r \in {<<>>} |-> node]

----------------------------------------------------------------------------
(* Callables *)

\* a function of the client, known by its name
Function(name) == [t |-> "function", name |-> name]
\* the bound method self._match of the object that holds it
BoundMatch == [t |-> "_match"]
\* the closure newcallback made by __getitem__ of the parent for its key
NewCallback == [t |-> "newcallback"]
\* the closure merged_callback made by _register
Merged(prev_callback, callback) ==
    [t |-> "merged_callback", prev_callback |-> prev_callback, callback |-> callback]
\* the closures made by ChangedDict.__init__ and HistoryDict.__init__
ChangedCallback == [t |-> "ChangedDict.callback"]
HistoryCallback == [t |-> "HistoryDict.callback"]

\* callable(x)
Callable(x) ==
    x.t \in {"function", "_match", "newcallback", "merged_callback",
             "ChangedDict.callback", "HistoryDict.callback"}

\* a Python dict of patterns to callables, as the _callback_registry slot holds it
DictOf(items) == [t |-> "dict", items |-> items]
EmptyItems == [p \in {} |-> NoneV]

\* the truth value of a registry slot: None and {} are false
Truthy(x) == x.t = "dict" /\ DOMAIN x.items # {}

----------------------------------------------------------------------------
(* Execution contexts *)

Context(st, ch, hi) ==
    [store |-> st, _changed |-> ch, _history |-> hi, calls |-> <<>>,
     err |-> NoError, ret |-> Leaf(NoneV), time |-> 0]

Raise(w, type, arg) == [w EXCEPT !.err = Error(type, arg)]
Return(w, value) == [w EXCEPT !.ret = value]
Failed(w) == w.err # NoError

\* what a client function reads when it looks up, in the top-level map, the
\* key it is called with
Observe(st, key) == At(st, Split(key, Sep))

\* one invocation of a callable, as the log of the operation keeps it
Invocation(name, key, value, st) ==
    [fn |-> name, key |-> key, value |-> value, seen |-> Observe(st, key)]

\* dict.__setitem__(d, key, value) on the dict at address d
dict__setitem__(w, d, key, value) ==
    [w EXCEPT !.store = Graft(@, Append(d, key), value)]

\* dict.__delitem__(d, key)
dict__delitem__(w, d, key) ==
    IF Append(d, key) \in DOMAIN w.store
    THEN [w EXCEPT !.store = Prune(@, Append(d, key))]
    ELSE Raise(w, "KeyError", key)

\* the NotifyDict node that NotifyDict.__init__ makes
NotifyDictNode(callback, registry, bypass) ==
    [t |-> "NotifyDict", _callback |-> callback, _callback_registry |-> registry,
     _bypass |-> bypass, _separator |-> Sep, id |-> 0]

----------------------------------------------------------------------------
(* NotifyDict: dispatch of a notification *)

\* The call cb(key, value) of a callable held by the NotifyDict at address
\* self, at nesting `depth` of callback calls, and NotifyDict._match, which
\* such a call may run.
RECURSIVE Call(_, _, _, _, _, _)
RECURSIVE MatchLoop(_, _, _, _, _, _)

\* the order in which iteritems() yields the patterns of a registry: some
\* fixed order of its keys
RECURSIVE IterOrder(_)
IterOrder(S) ==
    IF S = {} THEN <<>>
    ELSE LET p == CHOOSE q \in S : TRUE IN <<p>> \o IterOrder(S \ {p})

\* the for loop of _match over the patterns still to visit
MatchLoop(w, self, todo, key, value, depth) ==
    IF todo = <<>> \/ Failed(w) THEN w
    ELSE LET pattern == Head(todo)
             callback == w.store[self]._callback_registry.items[pattern]
             w1 == IF _fnmatch(key, pattern)
                   THEN Call(w, self, callback, key, value, depth)
                   ELSE w
         IN  MatchLoop(w1, self, Tail(todo), key, value, depth)

_match(w, self, key, value, depth) ==
    LET registry == w.store[self]._callback_registry
    IN  IF registry.t # "dict"
        THEN Raise(w, "AttributeError", <<>>)     \* None has no iteritems
        ELSE MatchLoop(w, self, IterOrder(DOMAIN registry.items), key, value, depth)

\* newcallback with the two keys joined the wrong way round
newcallbackSwapped(w, self, newkey, newvalue, depth) ==
    LET parent == Front(self)
        key == Last(self)
        separator == w.store[parent]._separator
    IN  Call(w, parent, w.store[parent]._callback,
             Join(separator, newkey, key), newvalue, depth)

\* newcallback(newkey, newvalue) of the child at address self: the closure
\* holds the parent and the key the child was read under, and calls the
\* parent's _callback slot with the joined key
newcallback(w, self, newkey, newvalue, depth) ==
    LET parent == Front(self)
        key == Last(self)
        separator == w.store[parent]._separator
    IN  Call(w, parent, w.store[parent]._callback,
             Join(separator, key, newkey), newvalue, depth)

Call(w, self, cb, key, value, depth) ==
    IF Failed(w) THEN w
    ELSE IF depth > RecursionLimit
    THEN Raise(w, "RuntimeError", <<>>)       \* maximum recursion depth exceeded
    ELSE CASE cb.t = "function" ->
                [w EXCEPT !.calls = Append(@, Invocation(cb.name, key, value, w.store))]
           [] cb.t = "ChangedDict.callback" ->
                [w EXCEPT !._changed = TRUE,
                          !.calls = Append(@, Invocation(cb.t, key, value, w.store))]
           [] cb.t = "HistoryDict.callback" ->
                [w EXCEPT !._history = Append(@, <<key, value>>),
                          !.calls = Append(@, Invocation(cb.t, key, value, w.store))]
           [] cb.t = "newcallback" -> newcallback(w, self, key, value, depth + 1)
           [] cb.t = "_match" -> _match(w, self, key, value, depth + 1)
           [] cb.t = "merged_callback" ->
                Call(Call(w, self, cb.prev_callback, key, value, depth + 1),
                     self, cb.callback, key, value, depth + 1)
           [] OTHER -> Raise(w, "TypeError", <<>>)    \* the object is not callable

\* NotifyDict.notify
notify(w, self, path, newvalue) ==
    IF w.store[self]._bypass
    THEN w
    ELSE Call(w, self, w.store[self]._callback, path, newvalue, 1)

----------------------------------------------------------------------------
(* NotifyDict: construction *)

\* the attributes a NotifyDict has: its slots once set, and its methods
NotifyDictAttrs ==
    {"_callback_registry", "_callback", "_separator", "_bypass",
     "_match", "notify", "getpath", "pop", "update", "register", "_register",
     "unregister", "set_stealth", "set"}

\* NotifyDict.__init__(self, callback, data): the node made for the new
\* object and the exception raised; dict.__init__ has copied the top level
\* of data into the object before
NotifyDict__init__(callback) ==
    IF Callable(callback)
    THEN [err |-> NoError, node |-> NotifyDictNode(callback, DictOf(EmptyItems), FALSE)]
    ELSE IF callback.t = "dict"
    THEN IF "match" \in NotifyDictAttrs
         THEN [err |-> NoError, node |-> NotifyDictNode(BoundMatch, callback, FALSE)]
         ELSE [err |-> Error("AttributeError", <<>>),
               node |-> NotifyDictNode(NoneV, NoneV, FALSE)]
    ELSE [err |-> NoError, node |-> NotifyDictNode(NoneV, NoneV, TRUE)]

----------------------------------------------------------------------------
(* NotifyDict: the mapping operations *)

StrV(s) == [t |-> "str", s |-> s]
\* the default of pop when the caller gives none
_NOTHING == [t |-> "_NOTHING"]

\* the slots of the NotifyDict at address self, reassigned
SetCallback(w, self, cb) == [w EXCEPT !.store[self]._callback = cb]
SetRegistry(w, self, reg) == [w EXCEPT !.store[self]._callback_registry = reg]
SetBypass(w, self, b) == [w EXCEPT !.store[self]._bypass = b]

\* dict.get(d, key, default): the value as an object tree; no promotion is made
dict_get(w, d, key, default) ==
    IF Append(d, key) \in DOMAIN w.store
    THEN Subtree(w.store, Append(d, key))
    ELSE default

\* __setitem__ with its two statements exchanged: write, then notify
__setitem__WriteFirst(w, self, key, value) ==
    notify(dict__setitem__(w, self, key, value), self, key, value)

\* NotifyDict.__setitem__: notify, then write
__setitem__(w, self, key, value) ==
    LET w1 == notify(w, self, key, value)
    IN  IF Failed(w1) THEN w1 ELSE dict__setitem__(w1, self, key, value)

\* __getitem__ without the test "not isinstance(value, NotifyDict)": a
\* dict that is wrapped already is wrapped again, in a new object
__getitem__Rewrap(w, self, key) ==
    LET a == Append(self, key)
    IN  IF a \notin DOMAIN w.store
        THEN Raise(w, "KeyError", key)
        ELSE IF IsDict(w.store[a])
        THEN LET made == NotifyDict__init__(NewCallback)
                 w1 == [w EXCEPT !.store[a] = [made.node EXCEPT !.id = w.time]]
             IN  Return(w1, Subtree(w1.store, a))
        ELSE Return(w, Subtree(w.store, a))

\* NotifyDict.__getitem__: a plain dict found under key is replaced by a
\* NotifyDict of the same items whose callback is newcallback.  The wrapper
\* is a new object: its id is the time of the operation that makes it.
__getitem__(w, self, key) ==
    LET a == Append(self, key)
    IN  IF a \notin DOMAIN w.store
        THEN Raise(w, "KeyError", key)
        ELSE IF w.store[a].t = "dict"
        THEN LET made == NotifyDict__init__(NewCallback)
                 w1 == [w EXCEPT !.store[a] = [made.node EXCEPT !.id = w.time]]
             IN  Return(w1, Subtree(w1.store, a))
        ELSE Return(w, Subtree(w.store, a))

\* d[k1][k2]...[kn] from the NotifyDict at address self: the object the
\* client reaches by indexing, every dict on the way promoted
RECURSIVE GetChain(_, _, _)
GetChain(w, self, keys) ==
    IF keys = <<>> \/ Failed(w) THEN w
    ELSE GetChain(__getitem__(w, self, Head(keys)), Append(self, Head(keys)), Tail(keys))

\* the for loop of getpath: d is the dict looked into, v the value found
\* last.  A value that is no dict leaves d as it is, and the loop goes on.
\* (default is no dict here)
RECURSIVE GetPathLoop(_, _, _, _, _)
GetPathLoop(w, d, keys, default, v) ==
    IF keys = <<>> THEN v
    ELSE LET v1 == dict_get(w, d, Head(keys), default)
         IN  GetPathLoop(w, IF IsDict(v1[<<>>]) THEN Append(d, Head(keys)) ELSE d,
                         Tail(keys), default, v1)

\* NotifyDict.getpath for a path that is a string
getpath(w, self, path, default) ==
    LET sep == w.store[self]._separator
        keys == IF \E i \in 1..(Len(path) - Len(sep) + 1) :
                       SubSeq(path, i, i + Len(sep) - 1) = sep
                THEN Split(path, sep) ELSE <<path>>
    IN  Return(w, GetPathLoop(w, self, keys, default, Leaf(NoneV)))

\* __delitem__ with its two statements exchanged: notify, then remove
__delitem__NotifyFirst(w, self, key) ==
    IF Append(self, key) \notin DOMAIN w.store
    THEN dict__delitem__(w, self, key)
    ELSE LET w1 == notify(w, self, key, Leaf(NoneV))
         IN  IF Failed(w1) THEN w1 ELSE dict__delitem__(w1, self, key)

\* NotifyDict.__delitem__: remove, then notify with None
__delitem__(w, self, key) ==
    LET w1 == dict__delitem__(w, self, key)
    IN  IF Failed(w1) THEN w1 ELSE notify(w1, self, key, Leaf(NoneV))

\* NotifyDict.pop
pop(w, self, key, default) ==
    LET w1 == IF default # Leaf(_NOTHING)
              THEN Return(w, dict_get(w, self, key, default))
              ELSE __getitem__(w, self, key)
        w2 == IF Failed(w1) THEN w1 ELSE notify(w1, self, key, w1.ret)
    IN  w2

\* NotifyDict.update(E) for E a sequence of (key, value) pairs, or a mapping
\* whose keys() come in that order
RECURSIVE update(_, _, _)
update(w, self, E) ==
    IF E = <<>> \/ Failed(w) THEN w
    ELSE update(__setitem__(w, self, Head(E)[1], Head(E)[2]), self, Tail(E))

----------------------------------------------------------------------------
(* NotifyDict: registration *)

\* x is self._match: every evaluation of self._match makes a new bound
\* method object, so no object held in a slot is identical to it
Is_self_match(x) == FALSE

\* NotifyDict._register
_register(w, self, callback, matching) ==
    LET registry == w.store[self]._callback_registry
    IN  IF ~Truthy(registry)
        THEN Raise(w, "AssertionError", <<>>)
        ELSE IF ~Is_self_match(w.store[self]._callback)
        THEN Raise(w, "AssertionError", <<>>)
        ELSE LET prev_callback == IF matching \in DOMAIN registry.items
                                  THEN registry.items[matching] ELSE NoneV
                 entry == IF prev_callback.t # "None"
                          THEN Merged(prev_callback, callback) ELSE callback
                 items == [p \in DOMAIN registry.items \cup {matching} |->
                              IF p = matching THEN entry ELSE registry.items[p]]
             IN  SetRegistry(w, self, DictOf(items))

\* register without its last statement: _bypass keeps its value
registerKeepsBypass(w, self, callback, matching) ==
    LET me == w.store[self]
    IN  IF me._callback.t = "None"
        THEN IF matching.t = "None"
             THEN SetCallback(w, self, callback)
             ELSE SetRegistry(SetCallback(w, self, BoundMatch), self,
                              DictOf([p \in {matching.s} |-> callback]))
        ELSE Raise(w, "AssertionError", <<>>)

\* NotifyDict.register; matching is None or a string
register(w, self, callback, matching) ==
    LET me == w.store[self]
        w1 == IF me._callback.t = "None"
              THEN IF matching.t = "None"
                   THEN SetCallback(w, self, callback)
                   ELSE SetRegistry(SetCallback(w, self, BoundMatch), self,
                                    DictOf([p \in {matching.s} |-> callback]))
              ELSE IF me._callback_registry.t = "None"
              THEN LET wa == SetCallback(w, self, BoundMatch)
                       wb == SetRegistry(wa, self,
                                 DictOf([p \in {Star} |-> wa.store[self]._callback]))
                   IN  _register(wb, self, callback, Star)
              ELSE _register(w, self, callback,
                             IF matching.t = "None" THEN Star ELSE matching.s)
    IN  IF Failed(w1) THEN w1 ELSE SetBypass(w1, self, FALSE)

\* NotifyDict.unregister
unregister(w, self, key) ==
    LET registry == w.store[self]._callback_registry
    IN  IF registry.t # "dict"
        THEN Raise(w, "AttributeError", <<>>)      \* None has no pop
        ELSE IF key \notin DOMAIN registry.items
        THEN Raise(w, "KeyError", key)             \* raised by dict.pop
        ELSE LET func == registry.items[key]
                 w1 == SetRegistry(w, self,
                           DictOf([p \in DOMAIN registry.items \ {key} |-> registry.items[p]]))
             IN  IF func.t = "None" THEN Raise(w1, "KeyError", <<>>) ELSE w1

----------------------------------------------------------------------------
(* NotifyDict: path writes *)

\* the loop of set with the creation of a missing dict made whatever force
\* is: without force the dict is made and KeyError raised all the same
RECURSIVE SetDescendCreateAlways(_, _, _, _)
SetDescendCreateAlways(w, d, keys, force) ==
    IF keys = <<>> THEN [w |-> w, d |-> d]
    ELSE LET key == Head(keys)
             a == Append(d, key)
             v == IF a \in DOMAIN w.store THEN w.store[a] ELSE NoneV
             create == v.t = "None"
             w1 == IF create THEN dict__setitem__(w, d, key, Leaf(PlainDict)) ELSE w
             v1 == IF create THEN PlainDict ELSE v
         IN  IF IsDict(v1) /\ (create => force)
             THEN SetDescendCreateAlways(w1, a, Tail(keys), force)
             ELSE [w |-> Raise(w1, "KeyError", key), d |-> d]

\* the for loop of set over keys[:-1]: the dict reached and the context
RECURSIVE SetDescend(_, _, _, _)
SetDescend(w, d, keys, force) ==
    IF keys = <<>> THEN [w |-> w, d |-> d]
    ELSE LET key == Head(keys)
             a == Append(d, key)
             v == IF a \in DOMAIN w.store THEN w.store[a] ELSE NoneV
             create == v.t = "None" /\ force
             w1 == IF create THEN dict__setitem__(w, d, key, Leaf(PlainDict)) ELSE w
             v1 == IF create THEN PlainDict ELSE v
         IN  IF IsDict(v1)
             THEN SetDescend(w1, a, Tail(keys), force)
             ELSE [w |-> Raise(w1, "KeyError", key), d |-> d]

\* set with the last write made as d[keys[-1]] = value, the statement the
\* source has commented out: a NotifyDict d then notifies on its own
setIndexedWrite(w, self, path, value, force) ==
    LET keys == Split(path, w.store[self]._separator)
        r == SetDescend(w, self, Front(keys), force)
    IN  IF Failed(r.w) THEN r.w
        ELSE LET w1 == IF r.w.store[r.d].t = "NotifyDict"
                       THEN __setitem__(r.w, r.d, Last(keys), value)
                       ELSE dict__setitem__(r.w, r.d, Last(keys), value)
             IN  IF Failed(w1) THEN w1 ELSE notify(w1, self, path, value)

\* NotifyDict.set for a path that is a string
set(w, self, path, value, force) ==
    LET keys == Split(path, w.store[self]._separator)
    IN  IF Len(keys) = 0
        THEN __setitem__(w, self, path, value)
        ELSE LET r == SetDescend(w, self, Front(keys), force)
             IN  IF Failed(r.w) THEN r.w
                 ELSE notify(dict__setitem__(r.w, r.d, Last(keys), value),
                             self, path, value)

\* set_stealth without its last statement: _bypass is left set
set_stealthKeepsBypass(w, self, path, value) ==
    set(SetBypass(w, self, TRUE), self, path, value, FALSE)

\* NotifyDict.set_stealth
set_stealth(w, self, path, value) ==
    LET w1 == SetBypass(w, self, TRUE)
        w2 == set(w1, self, path, value, FALSE)
    IN  IF Failed(w2) THEN w2 ELSE SetBypass(w2, self, FALSE)

----------------------------------------------------------------------------
(* ChangedDict and HistoryDict *)

\* the names a function body of the module can use
NamesInScope == {"self", "callback", "args", "kws", "NotifyDict", "_fnmatch", "_NOTHING"}

\* ChangedDict.__init__: _changed and the result of NotifyDict.__init__
ChangedDict__init__ ==
    [_changed |-> FALSE, made |-> NotifyDict__init__(ChangedCallback)]

\* HistoryDict.__init__: the call of NotifyDict.__init__ names slef
HistoryDict__init__ ==
    [_history |-> <<>>,
     made |-> IF "slef" \in NamesInScope
              THEN NotifyDict__init__(HistoryCallback)
              ELSE [err |-> Error("NameError", <<>>),
                    node |-> NotifyDictNode(NoneV, NoneV, FALSE)]]

\* check that leaves the flag as it is
ChangedDict_checkNoReset(w) == w

\* ChangedDict.check
ChangedDict_check(w) == [w EXCEPT !._changed = FALSE]

\* HistoryDict.check
HistoryDict_check(w) == [w EXCEPT !._history = <<>>]

----------------------------------------------------------------------------
(* The client: what it constructs and what it calls *)

BStar == <<"B", "/", "*">>

\* the dict literal {'A': 1, 'B': {'A': 1, 'B': {'A': 1}}}
Orig ==
    [a \in {<<>>, <<KeyA>>, <<KeyB>>, <<KeyB, KeyA>>, <<KeyB, KeyB>>, <<KeyB, KeyB, KeyA>>} |->
        IF a \in {<<>>, <<KeyB>>, <<KeyB, KeyB>>} THEN PlainDict ELSE IntV(1)]

InitialData == {Leaf(PlainDict), Orig}

\* the callback argument of NotifyDict(callback, data): nothing, a function,
\* a registry of patterns, or a value that is none of these
CallbackSpecs ==
    {NoneV, Function("f1"),
     DictOf([p \in {Star, BStar} |-> IF p = Star THEN Function("f1") ELSE Function("f2")]),
     IntV(5)}

Classes == {"NotifyDict", "ChangedDict", "HistoryDict"}

\* the values the client writes: an int other than the one of Orig, and the
\* empty dict literal
Values == {Leaf(IntV(2)), Leaf(PlainDict)}

\* the strings key1/key2/.../keyn of n keys
RECURSIVE PathsOf(_)
PathsOf(n) ==
    IF n = 1 THEN Keys
    ELSE {Join(Sep, k, p) : k \in Keys, p \in PathsOf(n - 1)}

Paths == UNION {PathsOf(n) : n \in 1..MaxSegs}

Patterns == {Star, BStar}

\* the paths that, from the dict at address t, stay within the client's tree
PathsFrom(t) == {p \in Paths : Len(t) + Len(Split(p, Sep)) <= MaxDepth + 1}

\* the addresses of the dicts the client can reach by indexing
Targets == {a \in DOMAIN store : IsDict(store[a])}

\* the context an operation starts in
Now == [Context(store, _changed, _history) EXCEPT !.time = nops + 1]

\* the context in which the client has reached the dict at address t by
\* indexing from the top-level map and calls a method of it
Reach(t) == Return(GetChain(Now, <<>>, t), Leaf(NoneV))

\* an operation: its name, the address of the dict it is called on, its key,
\* path or pattern, its value or default, its force flag, its callback
Op(name, self, key, value, flag, arg) ==
    [op |-> name, self |-> self, key |-> key, value |-> value, flag |-> flag,
     arg |-> arg]

\* The client keeps its sub-dicts under key 'B', as the dict of the examples
\* does, and nests them no deeper than MaxDepth.
ClientShape(tree) ==
    \A a \in DOMAIN tree :
        IsDict(tree[a]) => Len(a) <= MaxDepth /\ \A i \in 1..Len(a) : a[i] = KeyB

\* the state after an operation that ended in context w
Commit(w, op) ==
    /\ nops < MaxOps
    /\ ClientShape(w.store)
    /\ nops' = nops + 1
    /\ store' = w.store
    /\ _changed' = w._changed
    /\ _history' = w._history
    /\ calls' = w.calls
    /\ err' = w.err
    /\ ret' = w.ret
    /\ lastOp' = op
    /\ UNCHANGED <<cls, alive>>

\* d = NotifyDict(callback, data), d = ChangedDict(data), d = HistoryDict(data)
Constructed(c, callback, data) ==
    LET init == IF c = "ChangedDict" THEN ChangedDict__init__
                ELSE IF c = "HistoryDict" THEN HistoryDict__init__
                ELSE [made |-> NotifyDict__init__(callback)]
    IN  /\ cls = c
        /\ alive = (init.made.err = NoError)
        /\ store = [data EXCEPT ![<<>>] = init.made.node]
        /\ _changed = (IF c = "ChangedDict" THEN init._changed ELSE FALSE)
        /\ _history = (IF c = "HistoryDict" THEN init._history ELSE <<>>)
        /\ calls = <<>>
        /\ err = init.made.err
        /\ ret = Leaf(NoneV)
        /\ lastOp = Op("__init__", <<>>, <<>>, data, FALSE, callback)
        /\ nops = 0

Init ==
    \E c \in Classes, data \in InitialData :
        \E callback \in IF c = "NotifyDict" THEN CallbackSpecs ELSE {NoneV} :
            Constructed(c, callback, data)

\* d[t1]...[tn][key] = value
SetItem ==
    /\ alive
    /\ \E t \in Targets, key \in Keys, value \in Values :
          Commit(__setitem__(Reach(t), t, key, value),
                 Op("__setitem__", t, key, value, FALSE, NoneV))

\* d[t1]...[tn][key]
GetItem ==
    /\ alive
    /\ \E t \in Targets, key \in Keys :
          Commit(__getitem__(Reach(t), t, key),
                 Op("__getitem__", t, key, Leaf(NoneV), FALSE, NoneV))

\* del d[t1]...[tn][key]
DelItem ==
    /\ alive
    /\ \E t \in Targets, key \in Keys :
          Commit(__delitem__(Reach(t), t, key),
                 Op("__delitem__", t, key, Leaf(NoneV), FALSE, NoneV))

\* d[t1]...[tn].pop(key) and .pop(key, default)
Pop ==
    /\ alive
    /\ \E t \in Targets, key \in Keys, default \in {Leaf(_NOTHING), Leaf(IntV(2))} :
          Commit(pop(Reach(t), t, key, default),
                 Op("pop", t, key, default, FALSE, NoneV))

\* d[t1]...[tn].getpath(path) and .getpath(path, default)
GetPath ==
    /\ alive
    /\ \E t \in Targets, default \in {Leaf(NoneV), Leaf(IntV(2))} : \E path \in PathsFrom(t) :
          Commit(getpath(Reach(t), t, path, default),
                 Op("getpath", t, path, default, FALSE, NoneV))

\* d.update([('A', 1), ('B', 2)])
Update ==
    /\ alive
    /\ \E t \in Targets :
          Commit(update(Reach(t), t,
                        << <<KeyA, Leaf(IntV(1))>>, <<KeyB, Leaf(IntV(2))>> >>),
                 Op("update", t, <<>>, Leaf(NoneV), FALSE, NoneV))

\* d[t1]...[tn].set(path, value, force)
Set ==
    /\ alive
    /\ \E t \in Targets, value \in Values, force \in BOOLEAN : \E path \in PathsFrom(t) :
          Commit(set(Reach(t), t, path, value, force),
                 Op("set", t, path, value, force, NoneV))

\* d[t1]...[tn].set_stealth(path, value)
SetStealth ==
    /\ alive
    /\ \E t \in Targets, value \in Values : \E path \in PathsFrom(t) :
          Commit(set_stealth(Reach(t), t, path, value),
                 Op("set_stealth", t, path, value, FALSE, NoneV))

\* d.register(g) and d.register(g, pattern)
Register ==
    /\ alive
    /\ \E t \in {<<>>}, matching \in {NoneV} \cup {StrV(p) : p \in Patterns} :
          Commit(register(Reach(t), t, Function("g"), matching),
                 Op("register", t, IF matching.t = "None" THEN <<>> ELSE matching.s,
                    Leaf(NoneV), matching.t # "None", Function("g")))

\* d.unregister(pattern)
Unregister ==
    /\ alive
    /\ \E t \in {<<>>}, pattern \in Patterns :
          Commit(unregister(Reach(t), t, pattern),
                 Op("unregister", t, pattern, Leaf(NoneV), FALSE, NoneV))

\* d.check() of a ChangedDict or a HistoryDict
Check ==
    /\ alive
    /\ cls \in {"ChangedDict", "HistoryDict"}
    /\ Commit(IF cls = "ChangedDict" THEN ChangedDict_check(Now) ELSE HistoryDict_check(Now),
              Op("check", <<>>, <<>>, Leaf(NoneV), FALSE, NoneV))

Next ==
    \/ SetItem
    \/ GetItem
    \/ DelItem
    \/ Pop
    \/ GetPath
    \/ Update
    \/ Set
    \/ SetStealth
    \/ Register
    \/ Unregister
    \/ Check

Spec == Init /\ [][Next]_vars

\* The client that writes by path only, with paths of one segment more, and
\* from every dict it can reach: a path of three segments has two
\* intermediate segments, so that a dict can be made for the first before
\* the second is looked at.
LongPaths == UNION {PathsOf(n) : n \in 1..(MaxSegs + 1)}

\* d[t1]...[tn].set(path, value, force) for the paths of LongPaths
SetLong ==
    /\ alive
    /\ \E t \in Targets, value \in Values, force \in BOOLEAN, path \in LongPaths :
          Commit(set(Reach(t), t, path, value, force),
                 Op("set", t, path, value, force, NoneV))

NextPathWrites ==
    \/ SetLong
    \/ DelItem

SpecPathWrites == Init /\ [][NextPathWrites]_vars

----------------------------------------------------------------------------
(* The claims *)

\* key1/key2/.../keyn for the keys of a non-empty sequence
RECURSIVE JoinAll(_)
JoinAll(ks) == IF Len(ks) = 1 THEN ks[1] ELSE Join(Sep, ks[1], JoinAll(Tail(ks)))

\* the fully qualified key of key k of the dict at address t
Qualified(t, k) == JoinAll(Append(t, k))

\* the top-level map holds one callback of its own: the function it was
\* constructed with or given by register, or the closure of a ChangedDict
SoleCallback(st) == st[<<>>]._callback.t \in {"function", "ChangedDict.callback"}

\* the dict at address t of st swallows its notifications; a plain dict is
\* wrapped unsuppressed when it is reached (__getitem__)
Suppressed(st, t) == st[t].t = "NotifyDict" /\ st[t]._bypass

\* C1: an indexed write d[k] = v on a live top-level map (a sole callback,
\* not suppressed) raises nothing, calls the callback exactly once, with
\* (k, v), while the store still holds the old value of k (or no k), and
\* leaves v stored under k.
C1_SetItemNotifiesThenWrites ==
    [][(/\ lastOp'.op = "__setitem__"
        /\ lastOp'.self = <<>>
        /\ SoleCallback(store)
        /\ ~store[<<>>]._bypass)
       => (/\ err' = NoError
           /\ Len(calls') = 1
           /\ calls'[1].key = lastOp'.key
           /\ calls'[1].value = lastOp'.value
           /\ calls'[1].seen = At(store, <<lastOp'.key>>)
           /\ Subtree(store', <<lastOp'.key>>) = lastOp'.value)]_vars

\* d['A'] = 2 on a map that held 1 under 'A': f1 was called once and saw 1
C1_Witness ==
    /\ lastOp.op = "__setitem__"
    /\ lastOp.self = <<>>
    /\ lastOp.key = KeyA
    /\ lastOp.value = Leaf(IntV(2))
    /\ Len(calls) = 1
    /\ calls[1].fn = "f1"
    /\ calls[1].seen = IntV(1)
    /\ At(store, <<KeyA>>) = IntV(2)

\* C2: a write d[k1]...[kn][k] = v through the child wrappers that indexing
\* returns, at any depth n >= 1, on a map with a sole callback, returns,
\* calls that callback exactly once, with the key k1/.../kn/k and with v,
\* and stores v (the wrapper not being suppressed).
C2_NestedWriteQualifiedKey ==
    [][(/\ lastOp'.op = "__setitem__"
        /\ Len(lastOp'.self) >= 1
        /\ SoleCallback(store)
        /\ ~Suppressed(store, lastOp'.self))
       => (/\ err' = NoError
           /\ Len(calls') = 1
           /\ calls'[1].key = Qualified(lastOp'.self, lastOp'.key)
           /\ calls'[1].value = lastOp'.value
           /\ Subtree(store', Append(lastOp'.self, lastOp'.key)) = lastOp'.value)]_vars

\* d['B']['B']['A'] = 2: f1 was called once, with 'B/B/A'
C2_Witness ==
    /\ lastOp.op = "__setitem__"
    /\ lastOp.self = <<KeyB, KeyB>>
    /\ lastOp.key = KeyA
    /\ Len(calls) = 1
    /\ calls[1].fn = "f1"
    /\ calls[1].key = <<"B", "/", "B", "/", "A">>
    /\ calls[1].value = Leaf(IntV(2))

----------------------------------------------------------------------------

\* the functions a registry of functions calls for a key: those whose pattern
\* matches it
MatchingFunctions(registry, key) ==
    {registry.items[p].name : p \in {q \in DOMAIN registry.items : _fnmatch(key, q)}}

\* C3: a map constructed with a registry of patterns exists, and every
\* notification of it calls exactly the functions whose pattern matches the
\* qualified key, each once: with {'*': f1, 'B/*': f2}, d['A'] = 2 calls f1
\* alone and d['B']['A'] = 2 calls f1 and f2.
C3_PatternDispatch ==
    /\ (lastOp.op = "__init__" /\ lastOp.arg.t = "dict") => alive
    /\ (/\ alive
        /\ lastOp.op = "__setitem__"
        /\ store[<<>>]._callback.t = "_match"
        /\ store[<<>>]._callback_registry.t = "dict"
        /\ \A p \in DOMAIN store[<<>>]._callback_registry.items :
               store[<<>>]._callback_registry.items[p].t = "function"
        /\ ~store[lastOp.self]._bypass)
       => LET fired == MatchingFunctions(store[<<>>]._callback_registry,
                                         Qualified(lastOp.self, lastOp.key))
          IN  /\ err = NoError
              /\ {calls[i].fn : i \in 1..Len(calls)} = fired
              /\ Len(calls) = Cardinality(fired)

\* the address of the i-th segment of keys below the dict at address t
SegmentAddr(t, keys, i) == t \o SubSeq(keys, 1, i)

\* the first of the segments of inter that holds no mapping, 0 if none
FirstBad(st, t, inter) ==
    LET bad == {i \in 1..Len(inter) : ~IsDict(At(st, SegmentAddr(t, inter, i)))}
    IN  IF bad = {} THEN 0 ELSE CHOOSE i \in bad : \A j \in bad : i <= j

\* C4: a path write set(path, value) whose intermediate segments all hold
\* mappings puts value at the address the path names; on a map with a sole
\* callback, the dict not being suppressed, it returns and has called the
\* callback exactly once, after the write, with the whole path (qualified
\* by the keys the dict was reached through) and value; no other
\* notification is made.
C4_SetPathNotifiesOnce ==
    [][(/\ lastOp'.op = "set"
        /\ FirstBad(store, lastOp'.self, Front(Split(lastOp'.key, Sep))) = 0)
       => /\ Subtree(store', lastOp'.self \o Split(lastOp'.key, Sep)) = lastOp'.value
          /\ (SoleCallback(store) /\ ~Suppressed(store, lastOp'.self))
             => /\ err' = NoError
                /\ Len(calls') = 1
                /\ calls'[1].key = Qualified(lastOp'.self, lastOp'.key)
                /\ calls'[1].value = lastOp'.value
                /\ calls'[1].seen = lastOp'.value[<<>>]]_vars

\* d.set('B/A', 2) on {'A': 1, 'B': {'A': 1, ...}}: f1 called once with 'B/A'
C4_Witness ==
    /\ lastOp.op = "set"
    /\ lastOp.self = <<>>
    /\ lastOp.key = <<"B", "/", "A">>
    /\ ~lastOp.flag
    /\ err = NoError
    /\ Len(calls) = 1
    /\ calls[1].fn = "f1"
    /\ calls[1].key = <<"B", "/", "A">>
    /\ calls[1].seen = IntV(2)
    /\ At(store, <<KeyB, KeyA>>) = IntV(2)
    /\ At(store, <<KeyB, KeyB>>) = PlainDict

\* C5: set(path, value) without force raises KeyError naming the first
\* intermediate segment that is absent or holds no mapping; with force, when
\* every intermediate segment is absent or a mapping, the call returns,
\* every absent segment is then an empty dict made for it, and value is at
\* the path.
C5_SetPathForce ==
    [][lastOp'.op = "set" =>
        LET t == lastOp'.self
            keys == Split(lastOp'.key, Sep)
            inter == Front(keys)
            bad == FirstBad(store, t, inter)
        IN  /\ (~lastOp'.flag /\ bad # 0)
               => err' = Error("KeyError", inter[bad])
            /\ (/\ lastOp'.flag
                /\ \A i \in 1..Len(inter) :
                       LET n == At(store, SegmentAddr(t, inter, i))
                       IN  n = Absent \/ IsDict(n))
               => /\ err' = NoError
                  /\ \A i \in 1..Len(inter) :
                         /\ IsDict(At(store', SegmentAddr(t, inter, i)))
                         /\ At(store, SegmentAddr(t, inter, i)) = Absent
                            => At(store', SegmentAddr(t, inter, i)) = PlainDict
                  /\ Subtree(store', t \o keys) = lastOp'.value]_vars

----------------------------------------------------------------------------

\* C6: on a map with a sole callback, the dict not being suppressed,
\* set_stealth(path, value) with a path whose intermediate segments all
\* hold mappings returns, has put value at the path, at any depth, has
\* called no callback and leaves the dict unsuppressed: the next indexed
\* write on the same dict calls the callback once.
C6_SetStealthIsSilent ==
    [][/\ (/\ lastOp'.op = "set_stealth"
           /\ SoleCallback(store)
           /\ ~Suppressed(store, lastOp'.self)
           /\ FirstBad(store, lastOp'.self, Front(Split(lastOp'.key, Sep))) = 0)
          => /\ err' = NoError
             /\ calls' = <<>>
             /\ Subtree(store', lastOp'.self \o Split(lastOp'.key, Sep)) = lastOp'.value
             /\ ~store'[lastOp'.self]._bypass
       /\ (/\ lastOp.op = "set_stealth"
           /\ err = NoError
           /\ SoleCallback(store)
           /\ lastOp'.op = "__setitem__"
           /\ lastOp'.self = lastOp.self)
          => /\ err' = NoError
             /\ Len(calls') = 1
             /\ calls'[1].key = Qualified(lastOp'.self, lastOp'.key)
             /\ calls'[1].value = lastOp'.value]_vars

\* d.set_stealth('B/A', 2) on NotifyDict(f1, orig): 2 is stored, f1 not called
C6_Witness ==
    /\ lastOp.op = "set_stealth"
    /\ lastOp.self = <<>>
    /\ lastOp.key = <<"B", "/", "A">>
    /\ lastOp.value = Leaf(IntV(2))
    /\ err = NoError
    /\ store[<<>>]._callback = Function("f1")
    /\ ~store[<<>>]._bypass
    /\ calls = <<>>
    /\ At(store, <<KeyB, KeyA>>) = IntV(2)

\* the operations that change the map and notify of it
Mutators == {"__setitem__", "__delitem__", "set", "update"}

C8_HistoryLog ==
    cls = "HistoryDict" =>
        /\ alive
        /\ lastOp.op \in {"__init__", "check"} => _history = <<>>
        /\ Len(_history) >= Len(calls)
        /\ \A i \in 1..Len(calls) :
               _history[Len(_history) - Len(calls) + i] = <<calls[i].key, calls[i].value>>

----------------------------------------------------------------------------

\* the keys a notification is tried with: 'A' and 'B/A'
ProbeKeys == {KeyA, <<"B", "/", "A">>}

\* what the callback slot of the top-level map of st does when called with
\* key: the functions it calls, in order, and the exception it raises
CallbackFires(st, key) ==
    LET w == Call(Context(st, FALSE, <<>>), <<>>, st[<<>>]._callback, key, Leaf(NoneV), 1)
    IN  [fns |-> [i \in 1..Len(w.calls) |-> w.calls[i].fn], err |-> w.err]

\* what a notification of the top-level map of st with key does
NotifyFires(st, key) ==
    LET w == notify(Context(st, FALSE, <<>>), <<>>, key, Leaf(NoneV))
    IN  [fns |-> [i \in 1..Len(w.calls) |-> w.calls[i].fn], err |-> w.err]

\* pattern p has a callback in the registry of the top-level map of st
Registered(st, p) ==
    /\ st[<<>>]._callback_registry.t = "dict"
    /\ p \in DOMAIN st[<<>>]._callback_registry.items

\* C9: unregister(p) raises KeyError and changes nothing when no callback is
\* registered under p; when one is, it returns, p is no longer registered,
\* the other patterns keep their callbacks, and a notification calls the
\* functions of the patterns that are left and match, and no other.
C9_Unregister ==
    [][lastOp'.op = "unregister" =>
        LET p == lastOp'.key
        IN  IF Registered(store, p)
            THEN LET old == store[<<>>]._callback_registry.items
                     new == store'[<<>>]._callback_registry.items
                 IN  /\ err' = NoError
                     /\ DOMAIN new = DOMAIN old \ {p}
                     /\ \A q \in DOMAIN new : new[q] = old[q]
                     /\ (\A q \in DOMAIN new : new[q].t = "function")
                        => \A key \in ProbeKeys :
                              LET fired == NotifyFires(store', key)
                              IN  {fired.fns[i] : i \in 1..Len(fired.fns)}
                                    = MatchingFunctions(store'[<<>>]._callback_registry, key)
            ELSE /\ err'.type = "KeyError"
                 /\ store' = store]_vars

\* C10: register(g, pattern) on a map that has a callback returns and loses
\* no callback: a notification whose key matches the pattern given ('*' when
\* none is) then calls what it called before and, after that, g once.
C10_RegisterKeepsCallbacks ==
    [][(lastOp'.op = "register" /\ store[<<>>]._callback.t # "None") =>
        LET pattern == IF lastOp'.flag THEN lastOp'.key ELSE Star
        IN  /\ err' = NoError
            /\ \A key \in {k \in ProbeKeys : _fnmatch(k, pattern)} :
                   LET before == CallbackFires(store, key)
                       after == NotifyFires(store', key)
                   IN  before.err = NoError
                       => /\ after.err = NoError
                          /\ after.fns = before.fns \o <<lastOp'.arg.name>>]_vars

----------------------------------------------------------------------------

\* the top-level map of st is as NotifyDict() makes it: no callback, and
\* suppressed
BypassMode(st) == st[<<>>]._callback.t = "None" /\ st[<<>>]._bypass

\* C11: a map constructed without a callback is suppressed and calls
\* nothing: an indexed write on it returns, stores the value and makes no
\* call.  register(g), with or without a pattern, on such a map returns and
\* clears the suppression; from then on a notification calls g, once, when
\* its key matches the pattern (always when none was given) and nothing
\* otherwise, and so does the write that follows on the map or on a child
\* (the child not being suppressed).
C11_BypassUntilRegistered ==
    [][/\ (cls = "NotifyDict" /\ lastOp.op = "__init__" /\ lastOp.arg = NoneV)
          => BypassMode(store)
       /\ BypassMode(store) => calls' = <<>>
       /\ (BypassMode(store) /\ lastOp'.op = "__setitem__" /\ lastOp'.self = <<>>)
          => /\ err' = NoError
             /\ Subtree(store', <<lastOp'.key>>) = lastOp'.value
       /\ (BypassMode(store) /\ lastOp'.op = "register")
          => /\ err' = NoError
             /\ ~store'[<<>>]._bypass
             /\ \A key \in ProbeKeys :
                    NotifyFires(store', key) =
                       [fns |-> IF lastOp'.flag => _fnmatch(key, lastOp'.key)
                                THEN <<lastOp'.arg.name>> ELSE <<>>,
                        err |-> NoError]
       /\ (/\ lastOp.op = "register"
           /\ lastOp.arg = Function("g")
           /\ err = NoError
           /\ lastOp'.op = "__setitem__"
           /\ ~Suppressed(store, lastOp'.self))
          => LET key == Qualified(lastOp'.self, lastOp'.key)
             IN  IF lastOp.flag => _fnmatch(key, lastOp.key)
                 THEN /\ Len(calls') = 1
                      /\ calls'[1].fn = "g"
                      /\ calls'[1].key = key
                      /\ calls'[1].value = lastOp'.value
                 ELSE calls' = <<>>]_vars

\* d = NotifyDict(None, orig); d.register(g, 'B/*'); d['B']['A'] = 2: g is
\* called with 'B/A'
C11_Witness ==
    /\ nops = 2
    /\ lastOp.op = "__setitem__"
    /\ lastOp.self = <<KeyB>>
    /\ lastOp.key = KeyA
    /\ store[<<>>]._callback_registry.t = "dict"
    /\ DOMAIN store[<<>>]._callback_registry.items = {BStar}
    /\ Len(calls) = 1
    /\ calls[1].fn = "g"
    /\ calls[1].key = <<"B", "/", "A">>
    /\ err = NoError

----------------------------------------------------------------------------

\* the data of a tree: every NotifyDict in it read as the dict it is
Plain(tree) == [a \in DOMAIN tree |-> IF IsDict(tree[a]) THEN PlainDict ELSE tree[a]]

\* C12: an indexed read d[k] of a key holding a mapping returns a NotifyDict,
\* never a plain dict, and leaves that same object stored under k; it calls
\* nothing and changes no data.  A second read of the key right after the
\* first returns the identical object, and no operation puts another wrapper
\* in the place of one that is stored.
C12_PromotionMemoized ==
    [][/\ (/\ lastOp'.op = "__getitem__"
           /\ IsDict(At(store, Append(lastOp'.self, lastOp'.key))))
          => LET a == Append(lastOp'.self, lastOp'.key)
             IN  /\ err' = NoError
                 /\ ret'[<<>>].t = "NotifyDict"
                 /\ store'[a] = ret'[<<>>]
                 /\ Plain(ret') = Plain(Subtree(store, a))
                 /\ Plain(store') = Plain(store)
                 /\ calls' = <<>>
                 /\ (/\ lastOp.op = "__getitem__"
                     /\ lastOp.self = lastOp'.self
                     /\ lastOp.key = lastOp'.key)
                    => ret'[<<>>].id = ret[<<>>].id
       /\ \A a \in DOMAIN store \cap DOMAIN store' :
              (store[a].t = "NotifyDict" /\ store'[a].t = "NotifyDict")
              => store'[a].id = store[a].id]_vars

\* d['B'] read twice on a map constructed from orig: the wrapper made by
\* the first read (operation 1) is returned by the second (operation 2)
C12_Witness ==
    /\ nops = 2
    /\ lastOp.op = "__getitem__"
    /\ lastOp.self = <<>>
    /\ lastOp.key = KeyB
    /\ ret[<<>>].t = "NotifyDict"
    /\ ret[<<>>].id = 1
    /\ store[<<KeyB>>].id = 1

----------------------------------------------------------------------------

\* C13: NotifyDict(callback, data) with a callback that is not callable, not
\* a dict and not None (the number 5) raises an exception and makes no map.
C13_BadCallbackRejected ==
    (/\ cls = "NotifyDict"
     /\ lastOp.op = "__init__"
     /\ ~Callable(lastOp.arg)
     /\ lastOp.arg.t \notin {"dict", "None"})
    => /\ ~alive
       /\ err # NoError

----------------------------------------------------------------------------

\* C14: pop(key, default) of a key the dict does not hold returns default,
\* calls no callback and leaves the store as it was.
C14_PopAbsentWithDefault ==
    [][(/\ lastOp'.op = "pop"
        /\ lastOp'.value # Leaf(_NOTHING)
        /\ Append(lastOp'.self, lastOp'.key) \notin DOMAIN store)
       => /\ err' = NoError
          /\ ret' = lastOp'.value
          /\ calls' = <<>>
          /\ Plain(store') = Plain(store)]_vars

\* C15: pop(key) of a key the dict holds returns the value stored under key
\* and removes key from the dict; on a map with a sole callback, the dict
\* not being suppressed, it calls the callback exactly once, with key and
\* that value.
C15_PopRemoves ==
    [][(/\ lastOp'.op = "pop"
        /\ lastOp'.value = Leaf(_NOTHING)
        /\ Append(lastOp'.self, lastOp'.key) \in DOMAIN store)
       => LET a == Append(lastOp'.self, lastOp'.key)
          IN  /\ Plain(ret') = Plain(Subtree(store, a))
              /\ a \notin DOMAIN store'
              /\ (SoleCallback(store) /\ ~Suppressed(store, lastOp'.self))
                 => /\ err' = NoError
                    /\ Len(calls') = 1
                    /\ calls'[1].key = Qualified(lastOp'.self, lastOp'.key)
                    /\ Plain(calls'[1].value) = Plain(Subtree(store, a))]_vars

----------------------------------------------------------------------------

\* C16: del d[key] of a key the dict holds removes the key and what is below
\* it; on a map with a sole callback, the dict not being suppressed, it
\* returns and has called the callback exactly once, with key and None, and
\* the callback has found the key absent already.  del d[key] of a key the
\* dict does not hold raises KeyError, calls nothing and changes no data.
C16_DeleteThenNotify ==
    [][lastOp'.op = "__delitem__" =>
        LET a == Append(lastOp'.self, lastOp'.key)
        IN  IF a \in DOMAIN store
            THEN /\ \A b \in DOMAIN store' : ~IsPrefix(a, b)
                 /\ Plain(store') = Plain(Prune(store, a))
                 /\ (SoleCallback(store) /\ ~Suppressed(store, lastOp'.self))
                    => /\ err' = NoError
                       /\ Len(calls') = 1
                       /\ calls'[1].key = Qualified(lastOp'.self, lastOp'.key)
                       /\ calls'[1].value = Leaf(NoneV)
                       /\ calls'[1].seen = Absent
            ELSE /\ err' = Error("KeyError", lastOp'.key)
                 /\ calls' = <<>>
                 /\ Plain(store') = Plain(store)]_vars

\* del d['B']['A'] on NotifyDict(f1, orig): f1 is called with ('B/A', None)
\* and finds no 'A' under 'B'
C16_Witness ==
    /\ lastOp.op = "__delitem__"
    /\ lastOp.self = <<KeyB>>
    /\ lastOp.key = KeyA
    /\ err = NoError
    /\ Len(calls) = 1
    /\ calls[1].fn = "f1"
    /\ calls[1].key = <<"B", "/", "A">>
    /\ calls[1].value = Leaf(NoneV)
    /\ calls[1].seen = Absent
    /\ <<KeyB, KeyA>> \notin DOMAIN store
    /\ <<KeyB, KeyB, KeyA>> \in DOMAIN store

----------------------------------------------------------------------------

\* a descent that stops at the first value that is no mapping: that value is
\* the result, the segments left are not looked up
RECURSIVE StoppingDescent(_, _, _, _)
StoppingDescent(st, d, keys, default) ==
    LET a == Append(d, Head(keys))
        v == IF a \in DOMAIN st THEN Subtree(st, a) ELSE default
    IN  IF Len(keys) = 1 \/ ~IsDict(v[<<>>]) THEN v
        ELSE StoppingDescent(st, a, Tail(keys), default)

\* C17: getpath(path, default) returns the value at which a descent along
\* the segments of path stops: the value of the last segment, or of the
\* first segment whose value is no mapping ('A/B' on {'A': 1, 'B': {...}}
\* gives 1, the value of 'A').
C17_GetPathStops ==
    [][lastOp'.op = "getpath" =>
        /\ err' = NoError
        /\ Plain(ret') = Plain(StoppingDescent(store, lastOp'.self,
                                               Split(lastOp'.key, Sep), lastOp'.value))]_vars

----------------------------------------------------------------------------

\* C18: set_stealth(path, value), whether it returns or raises, leaves the
\* suppression of the dict as it found it: a dict that notifies still
\* notifies, a suppressed dict is still suppressed.
C18_SetStealthRestores ==
    [][lastOp'.op = "set_stealth"
       => store'[lastOp'.self]._bypass = Suppressed(store, lastOp'.self)]_vars

\* C19: on a map constructed without a callback and with nothing registered,
\* an indexed write on the map or on a child reached by indexing returns,
\* stores the value and calls nothing.
C19_SuppressedSwallowsAll ==
    [][(BypassMode(store) /\ lastOp'.op = "__setitem__")
       => /\ err' = NoError
          /\ calls' = <<>>
          /\ Subtree(store', Append(lastOp'.self, lastOp'.key)) = lastOp'.value]_vars

\* C20: a path write set(path, value, force) that raises KeyError, with or
\* without force, has changed no data at any level (no dict made, no value
\* written) and has called nothing.
C20_FailedSetChangesNothing ==
    [][(lastOp'.op = "set" /\ err'.type = "KeyError")
       => /\ Plain(store') = Plain(store)
          /\ calls' = <<>>]_vars

\* d.set('B/A/A', 2, force=True) on NotifyDict(f1, orig): 'B' is a dict,
\* 'B/A' holds 1, the call raises KeyError('A') and the data is as before
C20_Witness ==
    /\ nops = 1
    /\ lastOp.op = "set"
    /\ lastOp.self = <<>>
    /\ lastOp.key = <<"B", "/", "A", "/", "A">>
    /\ lastOp.flag
    /\ err = Error("KeyError", KeyA)
    /\ store[<<>>]._callback = Function("f1")
    /\ Plain(store) = Plain(Orig)
    /\ calls = <<>>

====
